---- MODULE Spec2Model ----
(***************************************************************************)
(* Model of ManaAnalyzer (src/Mana Analyzer/ManaAnalyzer.py): the land     *)
(* base, the color identity, the draw pile and the trial loop of           *)
(* run_simulation with its feasibility check and randomized tap search.    *)
(*                                                                         *)
(* A land label is the sequence of its characters (list(land) in the       *)
(* source), so "WU" is <<"W", "U">> and "C" is <<"C">>.  Random choices    *)
(* (shuffle, choice) are nondeterministic choices.  Rounded results are    *)
(* integers counted in hundredths.                                         *)
(***************************************************************************)
EXTENDS Integers, Sequences, FiniteSets

VARIABLES
    deck_colors,    \* self.deck_colors: list of color symbols (<<>> stands for None too)
    successful,     \* self.successful
    impossible,     \* self.impossible
    total_tries,    \* self.total_tries
    land_base,      \* self.land_base: label -> count (empty function = dict())
    draw_pile,      \* self.draw_pile: list of labels
    n_of_lands,     \* argument of the current / last run_simulation call
    trial,          \* iterations of the trial loop completed in this run
    draws,          \* local 'draws' of the current / last trial
    n,              \* loop index of analyze_tap_options
    available,      \* local 'available' of the last tap attempt
    pc,             \* "idle" | "loop" | "check" | "tap" | "tapped" | "crashed"
    error,          \* "none" | "ZeroDivisionError" | "IndexError"
    average_tries,  \* printed average in hundredths, -1 before it is computed
    percentage      \* printed percentage in hundredths, -1 before it is computed

vars == <<deck_colors, successful, impossible, total_tries, land_base, draw_pile,
          n_of_lands, trial, draws, n, available, pc, error, average_tries, percentage>>

---------------------------------------------------------------------------
(* Bounds of the model *)

\* self.n_of_simulations (200000 in the source), scaled down
n_of_simulations == 2

\* self.max_tap_tries (50 in the source), scaled down
max_tap_tries == 2

\* largest total number of lands in one deck file, and in the draw pile
MaxLands == 2

\* largest draw pile the model lets a run build
MaxPile == MaxLands

\* largest n_of_lands passed to run_simulation
MaxHand == MaxLands

\* SpecColorId: largest number of labels with a nonzero count
MaxKinds == 2

---------------------------------------------------------------------------
(* Data *)

Range(s) == {s[i] : i \in 1..Len(s)}

Min(a, b) == IF a < b THEN a ELSE b

FiveColor == <<"W", "U", "B", "R", "G">>

Colorless == <<"C">>

land_types ==
    << <<"W">>, <<"U">>, <<"B">>, <<"R">>, <<"G">>,
       <<"W","U">>, <<"U","B">>, <<"B","R">>, <<"R","G">>, <<"G","W">>,
       <<"W","B">>, <<"B","G">>, <<"G","U">>, <<"U","R">>, <<"R","W">>,
       <<"W","U","G">>, <<"W","U","B">>, <<"U","B","R">>, <<"B","R","G">>,
       <<"W","R","G">>, <<"W","B","R">>, <<"U","R","G">>, <<"W","B","G">>,
       <<"W","U","R">>, <<"U","B","G">>, FiveColor, Colorless >>

Labels == Range(land_types)

Symbols == {"W", "U", "B", "R", "G", "C"}

\* The deck file after parsing: one count per label of land_types.
EmptyDeck == [l \in Labels |-> 0]

AddLand(lb, l) == [lb EXCEPT ![l] = @ + 1]

RECURSIVE DecksOfSize(_, _)
DecksOfSize(ls, k) ==
    IF k = 0 THEN {EmptyDeck}
    ELSE {AddLand(lb, l) : lb \in DecksOfSize(ls, k - 1), l \in ls}

\* Labels the deck files of the main specification use.
DeckLabels == {<<"W">>, <<"U">>, <<"W","U">>, FiveColor, Colorless}

\* The land base of five five-color lands.
FiveColorDeck == [EmptyDeck EXCEPT ![FiveColor] = 5]

DeckFiles == UNION {DecksOfSize(DeckLabels, k) : k \in 0..MaxLands}

RECURSIVE SumCounts(_, _)
SumCounts(lb, i) ==
    IF i > Len(land_types) THEN 0
    ELSE (IF land_types[i] \in DOMAIN lb THEN lb[land_types[i]] ELSE 0)
         + SumCounts(lb, i + 1)

\* sum(land_base.values())
TotalLands(lb) == SumCounts(lb, 1)

Count(pile, l) == Cardinality({i \in 1..Len(pile) : pile[i] = l})

---------------------------------------------------------------------------
(* load_deck: lines 84-88 *)

RECURSIVE Repeat(_, _)
Repeat(l, k) == IF k <= 0 THEN <<>> ELSE <<l>> \o Repeat(l, k - 1)

RECURSIVE AppendLands(_, _, _)
AppendLands(pile, lb, i) ==
    IF i > Len(land_types) THEN pile
    ELSE AppendLands(pile \o Repeat(land_types[i], lb[land_types[i]]), lb, i + 1)

\* self.draw_pile after load_deck read 'file': the lands are appended to the pile.
load_deck(pile, file) == AppendLands(pile, file, 1)

---------------------------------------------------------------------------
(* get_color_id: lines 96-105 *)

RECURSIVE AddColors_KeepC(_, _, _)
AddColors_KeepC(dc, colors, j) ==
    IF j > Len(colors) THEN dc
    ELSE IF colors[j] \notin Range(dc)
         THEN AddColors_KeepC(Append(dc, colors[j]), colors, j + 1)
         ELSE AddColors_KeepC(dc, colors, j + 1)

\* lines 100-102: the inner loop over the characters of one label
RECURSIVE AddColors(_, _, _)
AddColors(dc, colors, j) ==
    IF j > Len(colors) THEN dc
    ELSE IF colors[j] \notin Range(dc) /\ colors[j] # "C"
         THEN AddColors(Append(dc, colors[j]), colors, j + 1)
         ELSE AddColors(dc, colors, j + 1)

\* lines 97-104: the loop over land_base.items(), in the order of land_types
RECURSIVE ColorIdFrom(_, _, _)
ColorIdFrom(lb, i, dc) ==
    IF i > Len(land_types) THEN dc
    ELSE LET land == land_types[i]
             number == lb[land]
         IN  IF land # FiveColor /\ number # 0
             THEN LET dc2 == AddColors(dc, land, 1)
                  IN  IF Len(dc2) = 5 THEN dc2 ELSE ColorIdFrom(lb, i + 1, dc2)
             ELSE ColorIdFrom(lb, i + 1, dc)

get_color_id(lb) == ColorIdFrom(lb, 1, <<>>)

---------------------------------------------------------------------------
(* run_simulation, lines 173-175: shuffle a copy of the pile, take a prefix *)

RECURSIVE IndexSeqs(_, _)
IndexSeqs(len, k) ==
    IF k = 0 THEN {<<>>}
    ELSE UNION {{Append(s, i) : i \in (1..len) \ Range(s)} : s \in IndexSeqs(len, k - 1)}

Hands(pile, k) ==
    LET h == Min(k, Len(pile))
    IN  {[j \in 1..h |-> pile[s[j]]] : s \in IndexSeqs(Len(pile), h)}

---------------------------------------------------------------------------
(* check_availability: lines 113-122 *)

RECURSIVE all_possible_colors(_)
all_possible_colors(d) ==
    IF d = <<>> THEN <<>> ELSE Head(d) \o all_possible_colors(Tail(d))

check_availability_NoReturn(d) ==
    IF Len(d) < Len(deck_colors)
    THEN [ret |-> FALSE, impossible |-> impossible]
    ELSE IF \E i \in 1..Len(deck_colors) :
                deck_colors[i] \notin Range(all_possible_colors(d))
         THEN [ret |-> TRUE, impossible |-> impossible + 1]
         ELSE [ret |-> TRUE, impossible |-> impossible]

RECURSIVE fixed_colors_only(_)
fixed_colors_only(d) ==
    IF d = <<>> THEN <<>>
    ELSE (IF Head(d) \in {FiveColor, Colorless} THEN <<>> ELSE Head(d))
         \o fixed_colors_only(Tail(d))

check_availability_SkipWildcards(d) ==
    IF Len(d) < Len(deck_colors)
    THEN [ret |-> FALSE, impossible |-> impossible]
    ELSE IF \E i \in 1..Len(deck_colors) :
                deck_colors[i] \notin Range(fixed_colors_only(d))
         THEN [ret |-> FALSE, impossible |-> impossible + 1]
         ELSE [ret |-> TRUE, impossible |-> impossible]

\* The return value and self.impossible after the call.
check_availability(d) ==
    IF Len(d) < Len(deck_colors)
    THEN [ret |-> FALSE, impossible |-> impossible]
    ELSE IF \E i \in 1..Len(deck_colors) :
                deck_colors[i] \notin Range(all_possible_colors(d))
         THEN [ret |-> FALSE, impossible |-> impossible + 1]
         ELSE [ret |-> TRUE, impossible |-> impossible]

---------------------------------------------------------------------------
(* analyze_tap_options: lines 132-146 *)

\* lines 135-139: what choice() draws from for one land
TapOptions(draw) == IF Len(draw) = 5 THEN deck_colors ELSE draw

\* choice() of an empty list raises IndexError
TapRaises(d) == \E i \in 1..Len(d) : TapOptions(d[i]) = <<>>

TapChoices(d) ==
    {t \in [1..Len(d) -> Symbols] : \A i \in 1..Len(d) : t[i] \in Range(TapOptions(d[i]))}

\* lines 140-141: the tapped colors in order, without repetition
RECURSIVE Collect(_, _, _)
Collect(t, i, av) ==
    IF i > Len(t) THEN av
    ELSE Collect(t, i + 1, IF t[i] \notin Range(av) THEN Append(av, t[i]) ELSE av)

\* line 142
TapSucceeds(av) == Len(av) = Len(deck_colors)

---------------------------------------------------------------------------
(* round(x, 2) of num / den, in hundredths; an exact tie may go either way *)

Round2(num, den) ==
    LET q == (100 * num) \div den
        r == (100 * num) % den
    IN  IF 2 * r < den THEN {q}
        ELSE IF 2 * r > den THEN {q + 1}
        ELSE {q, q + 1}

---------------------------------------------------------------------------
(* The state machine *)

\* __init__, lines 45-55
Init ==
    /\ deck_colors = <<>>
    /\ successful = 0
    /\ impossible = 0
    /\ total_tries = 0
    /\ land_base = [l \in {} |-> 0]
    /\ draw_pile = <<>>
    /\ n_of_lands = 0
    /\ trial = 0
    /\ draws = <<>>
    /\ n = 0
    /\ available = <<>>
    /\ pc = "idle"
    /\ error = "none"
    /\ average_tries = -1
    /\ percentage = -1

\* run_simulation(k) up to the trial loop: initialize() = reset, load_deck, get_color_id
RunSimulation(k, file) ==
    /\ successful' = 0
    /\ impossible' = 0
    /\ total_tries' = 0
    /\ land_base' = file
    /\ draw_pile' = load_deck(draw_pile, file)
    /\ deck_colors' = get_color_id(file)
    /\ n_of_lands' = k
    /\ trial' = 0
    /\ pc' = "loop"
    /\ average_tries' = -1
    /\ percentage' = -1
    /\ UNCHANGED <<draws, n, available, error>>

\* One iteration of the trial loop begins: the hand is drawn, lines 173-175
Draw ==
    /\ pc = "loop"
    /\ trial < n_of_simulations
    /\ draws' \in Hands(draw_pile, n_of_lands)
    /\ pc' = "check"
    /\ UNCHANGED <<deck_colors, successful, impossible, total_tries, land_base, draw_pile,
                   n_of_lands, trial, n, available, error, average_tries, percentage>>

\* check_availability(draws) and the branch on its result, line 176
Check ==
    /\ pc = "check"
    /\ LET r == check_availability(draws)
       IN  /\ impossible' = r.impossible
           /\ IF r.ret
              THEN pc' = "tap" /\ UNCHANGED <<trial, draws>>
              ELSE pc' = "loop" /\ trial' = trial + 1 /\ draws' = <<>>
    /\ UNCHANGED <<deck_colors, successful, total_tries, land_base, draw_pile,
                   n_of_lands, n, available, error, average_tries, percentage>>

\* One iteration of the loop of analyze_tap_options taps every land, lines 132-141
TapAttempt ==
    /\ pc = "tap"
    /\ n < max_tap_tries
    /\ IF TapRaises(draws)
       THEN /\ pc' = "crashed"
            /\ error' = "IndexError"
            /\ UNCHANGED available
       ELSE /\ available' \in {Collect(t, 1, <<>>) : t \in TapChoices(draws)}
            /\ pc' = "tapped"
            /\ UNCHANGED error
    /\ UNCHANGED <<deck_colors, successful, impossible, total_tries, land_base, draw_pile,
                   n_of_lands, trial, draws, n, average_tries, percentage>>

\* The test that ends the iteration, lines 142-145
TapResult ==
    /\ pc = "tapped"
    /\ IF TapSucceeds(available)
       THEN /\ successful' = successful + 1
            /\ total_tries' = total_tries + n
            /\ pc' = "loop"
            /\ trial' = trial + 1
            /\ n' = 0
            /\ draws' = <<>>
       ELSE /\ n' = n + 1
            /\ pc' = "tap"
            /\ UNCHANGED <<successful, total_tries, trial, draws>>
    /\ available' = <<>>
    /\ UNCHANGED <<deck_colors, impossible, land_base, draw_pile, n_of_lands,
                   error, average_tries, percentage>>

\* The loop of analyze_tap_options ran out, line 146
TapExhausted ==
    /\ pc = "tap"
    /\ n >= max_tap_tries
    /\ total_tries' = total_tries + max_tap_tries
    /\ pc' = "loop"
    /\ trial' = trial + 1
    /\ n' = 0
    /\ draws' = <<>>
    /\ UNCHANGED <<deck_colors, successful, impossible, land_base, draw_pile, n_of_lands,
                   available, error, average_tries, percentage>>

\* After the trial loop, lines 178-181
Report ==
    /\ pc = "loop"
    /\ trial = n_of_simulations
    /\ IF n_of_simulations - impossible = 0
       THEN /\ pc' = "crashed"
            /\ error' = "ZeroDivisionError"
            /\ UNCHANGED <<average_tries, percentage>>
       ELSE /\ average_tries' \in Round2(total_tries, n_of_simulations - impossible)
            /\ percentage' \in Round2(successful * 100, n_of_simulations)
            /\ pc' = "idle"
            /\ UNCHANGED error
    /\ UNCHANGED <<deck_colors, successful, impossible, total_tries, land_base, draw_pile,
                   n_of_lands, trial, draws, n, available>>

\* A call of run_simulation with any hand size and any deck file that keeps the
\* draw pile within MaxPile
Call ==
    /\ pc = "idle"
    /\ \E k \in 0..MaxHand, file \in DeckFiles :
          /\ Len(draw_pile) + TotalLands(file) <= MaxPile
          /\ RunSimulation(k, file)

\* The first call with a deck file of five five-color lands, five lands drawn
CallFiveColor ==
    /\ pc = "idle"
    /\ draw_pile = <<>>
    /\ RunSimulation(5, FiveColorDeck)

Next ==
    \/ Call
    \/ CallFiveColor
    \/ Draw
    \/ Check
    \/ TapAttempt
    \/ TapResult
    \/ TapExhausted
    \/ Report

Spec == Init /\ [][Next]_vars

---------------------------------------------------------------------------
(* get_color_id on its own, over land bases of all 27 labels: at most MaxKinds  *)
(* labels have a nonzero count, each the same count of 1..MaxLands           *)

RECURSIVE KindSets(_)
KindSets(k) ==
    IF k = 0 THEN {{}}
    ELSE KindSets(k - 1) \cup {S \cup {l} : S \in KindSets(k - 1), l \in Labels}

WideDecks ==
    {[l \in Labels |-> IF l \in S THEN c ELSE 0] : S \in KindSets(MaxKinds), c \in 1..MaxLands}

InitColorId ==
    /\ deck_colors = <<>>
    /\ successful = 0
    /\ impossible = 0
    /\ total_tries = 0
    /\ land_base \in WideDecks
    /\ draw_pile = <<>>
    /\ n_of_lands = 0
    /\ trial = 0
    /\ draws = <<>>
    /\ n = 0
    /\ available = <<>>
    /\ pc = "get_color_id"
    /\ error = "none"
    /\ average_tries = -1
    /\ percentage = -1

GetColorId ==
    /\ pc = "get_color_id"
    /\ deck_colors' = get_color_id(land_base)
    /\ pc' = "color_id_done"
    /\ UNCHANGED <<successful, impossible, total_tries, land_base, draw_pile, n_of_lands,
                   trial, draws, n, available, error, average_tries, percentage>>

SpecColorId == InitColorId /\ [][GetColorId]_vars

---------------------------------------------------------------------------
(* Notions the properties are stated with *)

Colors == {"W", "U", "B", "R", "G"}

\* The colors a label stands for: its symbols, the symbol C standing for none.
LabelColors(l) == Range(l) \ {"C"}

CountOf(lb, l) == IF l \in DOMAIN lb THEN lb[l] ELSE 0

PresentLabels(lb) == {l \in Labels : CountOf(lb, l) # 0}

\* Every required color is among the colors of some drawn label.
Covered(d) == \A c \in Range(deck_colors) : \E i \in 1..Len(d) : c \in LabelColors(d[i])

\* Every required color is among the colors of some drawn label that is no wildcard.
CoveredByFixed(d) ==
    \A c \in Range(deck_colors) :
        \E i \in 1..Len(d) : d[i] \notin {FiveColor, Colorless} /\ c \in Range(d[i])

AllMono(lb) ==
    /\ PresentLabels(lb) # {}
    /\ \A l \in PresentLabels(lb) : Len(l) = 1 /\ l # Colorless

PoolMatchesLandBase ==
    /\ Len(draw_pile) = TotalLands(land_base)
    /\ \A l \in Labels : Count(draw_pile, l) = CountOf(land_base, l)

---------------------------------------------------------------------------
(* Properties *)

\* C1: a tap attempt is counted as a success only if the set of colors it produced
\* equals the required color set.
C1_SuccessProducesAllColors ==
    [][(pc = "tapped" /\ successful' = successful + 1)
         => Range(available) = Range(deck_colors)]_vars

\* C2 (as claimed): the required color set has at most 5 elements and is the union of
\* the colors of all labels with a nonzero count, the five-color label included.
C2_ColorIdIncludesFiveColor ==
    pc = "color_id_done" =>
        /\ Cardinality(Range(deck_colors)) <= 5
        /\ Range(deck_colors) = UNION {LabelColors(l) : l \in PresentLabels(land_base)}

\* C2 (amended): the required color set has at most 5 elements, none twice, and is the
\* union of the colors of all labels with a nonzero count other than the five-color
\* label, the symbol C contributing nothing.
C2_ColorIdExcludesFiveColor ==
    pc = "color_id_done" =>
        /\ Len(deck_colors) <= 5
        /\ Cardinality(Range(deck_colors)) = Len(deck_colors)
        /\ Range(deck_colors) =
               UNION {LabelColors(l) : l \in PresentLabels(land_base) \ {FiveColor}}

\* C2 witness: a land base with five-color lands whose color identity is not all five.
C2_Witness ==
    /\ pc = "color_id_done"
    /\ land_base[FiveColor] # 0
    /\ Len(deck_colors) \in 1..4

\* C3: a run in which every trial was counted infeasible does not end in a division
\* by zero.
C3_DegenerateRunReported ==
    (trial = n_of_simulations /\ impossible = n_of_simulations)
        => error # "ZeroDivisionError"

\* C4: a trial whose hand is smaller than the required color set increments
\* impossible by one, runs no tap search and leaves successful and total_tries alone.
C4_ShortHandCountedInfeasible ==
    [][(pc = "check" /\ Len(draws) < Len(deck_colors))
         => /\ impossible' = impossible + 1
            /\ pc' = "loop"
            /\ successful' = successful
            /\ total_tries' = total_tries]_vars

\* C5: at every point of every run the draw pile holds each label exactly
\* land_base[label] times.
C5_PoolMatchesLandBase == PoolMatchesLandBase

\* C6: with n_of_lands larger than the draw pile no trial runs and the counters stay 0.
C6_OversizedHandRejected ==
    n_of_lands > Len(draw_pile) =>
        /\ pc \notin {"check", "tap", "tapped"}
        /\ trial = 0
        /\ successful = 0
        /\ impossible = 0
        /\ total_tries = 0

\* C7: after any number of completed trials 0 <= successful, impossible <= trial,
\* successful + impossible <= trial and 0 <= total_tries <= max_tap_tries *
\* (trial - impossible); the printed percentage lies in [0, 100] and the printed
\* average in [0, max_tap_tries] (both in hundredths).
C7_AggregateBounds ==
    /\ trial \in 0..n_of_simulations
    /\ successful \in 0..trial
    /\ impossible \in 0..trial
    /\ successful + impossible <= trial
    /\ total_tries >= 0
    /\ total_tries <= max_tap_tries * (trial - impossible)
    /\ average_tries # -1 =>
          /\ percentage \in 0..10000
          /\ average_tries \in 0..(100 * max_tap_tries)

\* C7 witness: a reported run with a success and an exhausted trial.
C7_Witness ==
    /\ pc = "idle"
    /\ average_tries > 0
    /\ successful >= 1
    /\ total_tries >= max_tap_tries

\* C8: a run over five five-color lands with five lands drawn has the required color
\* set {W,U,B,R,G} and completes all its trials without an error.
C8_FiveColorRunCompletes ==
    (/\ land_base = FiveColorDeck
     /\ draw_pile = Repeat(FiveColor, 5)
     /\ n_of_lands = 5
     /\ pc \in {"idle", "crashed"})
        => /\ error = "none"
           /\ trial = n_of_simulations
           /\ Range(deck_colors) = Colors

\* C9 (as claimed): a hand with at least as many lands as required colors passes the
\* check exactly when every required color is on a drawn label that is no wildcard;
\* otherwise it is counted impossible and reaches no tap search.
C9_WildcardsExcluded ==
    [][(pc = "check" /\ Len(draws) >= Len(deck_colors))
         => /\ (pc' = "tap") <=> CoveredByFixed(draws)
            /\ ~CoveredByFixed(draws) => (impossible' = impossible + 1 /\ pc' = "loop")]_vars

\* C9 (amended): a hand with at least as many lands as required colors passes the
\* check exactly when every required color is among the symbols of a drawn label, the
\* five-color label counting for all five colors and only the label C for none;
\* otherwise it is counted impossible and reaches no tap search.
C9_OnlyColorlessExcluded ==
    [][(pc = "check" /\ Len(draws) >= Len(deck_colors))
         => /\ (pc' = "tap") <=> Covered(draws)
            /\ ~Covered(draws) => (impossible' = impossible + 1 /\ pc' = "loop")
            /\ Covered(draws) => impossible' = impossible]_vars

\* C9 witness: a hand passed the check with a required color that only a five-color
\* land of the hand carries.
C9_Witness ==
    /\ pc = "tap"
    /\ \E i \in 1..Len(draws) : draws[i] = FiveColor
    /\ ~CoveredByFixed(draws)

\* C10: with a land base of mono-color labels only, a hand passes the check exactly
\* when it holds a land of every required color, every hand that passed succeeds on
\* attempt 0, no trial ends exhausted and total_tries stays 0.
C10_MonoSucceedsOnFirstTry ==
    [][AllMono(land_base) =>
         /\ pc = "check" => ((pc' = "tap") <=> Covered(draws))
         /\ pc = "tapped" => (n = 0 /\ successful' = successful + 1 /\ pc' = "loop")
         /\ pc = "tap" => n < max_tap_tries
         /\ total_tries' = 0]_vars

\* The same while the draw pile holds exactly the lands of the land base.
MonoSucceedsOnFirstTryWhenPoolMatches ==
    [][(AllMono(land_base) /\ PoolMatchesLandBase) =>
         /\ pc = "check" => ((pc' = "tap") <=> Covered(draws))
         /\ pc = "tapped" => (n = 0 /\ successful' = successful + 1 /\ pc' = "loop")
         /\ pc = "tap" => n < max_tap_tries
         /\ total_tries' = 0]_vars

====
